---- MODULE Spec2Model ----
(***************************************************************************)
(* Event coincidence analysis (src/eca.py) and the lag analysis of the     *)
(* dashboard script (src/app.py).                                          *)
(*                                                                         *)
(* Representation                                                          *)
(*   - a DataFrame is a function from column name to a sequence of cells;  *)
(*   - a missing cell (NaN) is the value NaN below;                        *)
(*   - a float that is the quotient of two integers is the pair            *)
(*     <<numerator, denominator>>, and the float NaN is <<0, 0>>;          *)
(*   - numpy's Generator is a state in 0 .. RngModulus-1 advanced by a     *)
(*     full-period linear congruential step; bounded integers are taken    *)
(*     from the state by multiply-and-shift, and a permutation is the      *)
(*     Fisher-Yates shuffle numpy runs over a copy of the array.           *)
(***************************************************************************)
EXTENDS Integers, Sequences, FiniteSets, TLC

\* ------------------------------------------------------------------ bounds
MaxRows == 3
MaxSims == 2
MaxSeed == 2
MaxEntropy == 1
BatchRows == 2
ReproRows == 2
MaxEvents == 2

\* --------------------------------------------------------------- constants
NaN == 0 - 1
None == 0 - 1
MinSims == 0 - 2
RngModulus == 16
SeedHigh == 7
MaxLag == 5
NaNFloat == <<0, 0>>

\* ------------------------------------------------------- numeric helpers
RECURSIVE SumSeq(_)
SumSeq(s) ==
    IF Len(s) = 0 THEN 0 ELSE Head(s) + SumSeq(Tail(s))

RECURSIVE dot(_, _)
dot(a, b) ==
    IF Len(a) = 0 THEN 0 ELSE Head(a) * Head(b) + dot(Tail(a), Tail(b))

\* a division that writes 0 where the total is 0
np_divide_zero_default(x, t) ==
    IF t > 0 THEN <<x, t>> ELSE <<0, 1>>

\* np.divide(x, t, out=np.full(1, np.nan), where=t > 0)[0]
np_divide_where(x, t) ==
    IF t > 0 THEN <<x, t>> ELSE NaNFloat

\* ------------------------------------------------------ Binary Normalizer
\* pd.Series(series).fillna(0).astype(int).to_numpy()
_binary_series(series) ==
    [i \in 1..Len(series) |-> IF series[i] = NaN THEN 0 ELSE series[i]]

\* ------------------------------------------------- Coincidence Summarizer
compute_coincidence_summary(df, event_a, event_b) ==
    LET a == _binary_series(df[event_a])
        b == _binary_series(df[event_b])
        coincidences == dot(a, b)
        totals == [e \in {event_a, event_b} |->
                      IF e = event_b THEN SumSeq(b) ELSE SumSeq(a)]
        rate_a == np_divide_where(coincidences, totals[event_a])
        rate_b == np_divide_where(coincidences, totals[event_b])
    IN  [coincidences |-> coincidences,
         totals |-> totals,
         conditional_rates |-> [e \in {event_a, event_b} |->
                                   IF e = event_b THEN rate_b ELSE rate_a]]

\* ------------------------------------------------------ random generator
\* a generator built without the seed: np.random.default_rng()
SeedIgnored(random_state, entropy) ==
    entropy % RngModulus

\* np.random.default_rng(random_state): the seed decides the initial state;
\* without a seed the state comes from operating-system entropy.
default_rng(random_state, entropy) ==
    IF random_state = None
    THEN entropy % RngModulus
    ELSE (5 * random_state + 2) % RngModulus

RngStep(state) ==
    (5 * state + 3) % RngModulus

\* one bounded draw in 0 .. n-1: the generator advances, then yields
RngDraw(state, n) ==
    LET s == RngStep(state)
    IN  [state |-> s, value |-> (s * n) \div RngModulus]

Swap(arr, i, j) ==
    [k \in 1..Len(arr) |-> IF k = i THEN arr[j] ELSE IF k = j THEN arr[i] ELSE arr[k]]

\* Generator.shuffle on a copy: for i in reversed(range(1, n)): j = draw in
\* [0, i]; swap.  Positions are 1-based here.
RECURSIVE Shuffle(_, _, _)
Shuffle(arr, state, i) ==
    IF i <= 1
    THEN [state |-> state, arr |-> arr]
    ELSE LET d == RngDraw(state, i)
         IN  Shuffle(Swap(arr, i, d.value + 1), d.state, i - 1)

\* a resampling with replacement in place of a permutation
RECURSIVE Resample(_, _, _)
Resample(arr, state, i) ==
    IF i < 1
    THEN [state |-> state, arr |-> arr]
    ELSE LET d == RngDraw(state, Len(arr))
         IN  Resample([arr EXCEPT ![i] = arr[d.value + 1]], d.state, i - 1)

PermutationResampled(b, state) ==
    Resample(b, state, Len(b))

rng_permutation(b, state) ==
    Shuffle(b, state, Len(b))

\* ------------------------------------------- Monte Carlo Null Generator
\* the generator expression of lines 37-41, one trial per item of
\* range(simulations); a non-positive count yields no item
RECURSIVE Trials(_, _, _, _)
Trials(a, b, state, n) ==
    IF n <= 0
    THEN <<>>
    ELSE LET p == rng_permutation(b, state)
         IN  <<dot(a, p.arr)>> \o Trials(a, b, p.state, n - 1)

monte_carlo_coincidences(df, event_a, event_b, simulations, random_state, entropy) ==
    LET a == _binary_series(df[event_a])
        b == _binary_series(df[event_b])
        rng == default_rng(random_state, entropy)
    IN  Trials(a, b, rng, simulations)

\* --------------------------------------------------- Significance Estimator
\* np.count_nonzero(sims >= observed)
count_ge(sims, observed) ==
    Cardinality({i \in 1..Len(sims) : sims[i] >= observed})

\* the estimate without the +1 smoothing
p_value_unsmoothed(sims, observed, simulations) ==
    <<count_ge(sims, observed), simulations + 1>>

\* the estimate counting only the trials strictly above the observed count
p_value_strict(sims, observed, simulations) ==
    <<Cardinality({i \in 1..Len(sims) : sims[i] > observed}) + 1, simulations + 1>>

\* (np.count_nonzero(sims >= observed) + 1) / (simulations + 1)
p_value_of(sims, observed, simulations) ==
    <<count_ge(sims, observed) + 1, simulations + 1>>

\* float(np.mean(sims)); the mean of an empty array is NaN
np_mean(sims) ==
    IF Len(sims) = 0 THEN NaNFloat ELSE <<SumSeq(sims), Len(sims)>>

\* ---------------------------------------------- Pairwise Analysis Orchestrator
\* The outcome of one call: status "ok" with the returned dict, or the
\* exception raised by the division of line 55 (the locals summary and sims
\* exist by then).
run_event_coincidence_analysis(df, event_a, event_b, simulations, random_state, entropy) ==
    LET summary == compute_coincidence_summary(df, event_a, event_b)
        sims == monte_carlo_coincidences(df, event_a, event_b, simulations,
                                         random_state, entropy)
        observed == summary.coincidences
    IN  IF simulations + 1 = 0
        THEN [status |-> "ZeroDivisionError",
              summary |-> summary,
              simulations |-> sims,
              p_value |-> NaNFloat,
              expected_random_coincidences |-> NaNFloat]
        ELSE [status |-> "ok",
              summary |-> summary,
              simulations |-> sims,
              p_value |-> p_value_of(sims, observed, simulations),
              expected_random_coincidences |-> np_mean(sims)]

\* ------------------------------------------------------ Batch Orchestrator
\* rng.integers(0, 2**32 - 1, size=n, dtype=np.uint32): n draws in
\* 0 .. SeedHigh-1 from the one generator, in order
RECURSIVE rng_integers(_, _)
rng_integers(state, n) ==
    IF n <= 0
    THEN <<>>
    ELSE LET d == RngDraw(state, SeedHigh)
         IN  <<d.value>> \o rng_integers(d.state, n - 1)

\* every category seeded with the master seed itself
SeedsCopiedFromMaster(random_state, entropy, n) ==
    [i \in 1..n |-> IF random_state = None THEN entropy ELSE random_state]

\* lines 72-73: the sub-seeds of a batch over n events
batch_seeds(random_state, entropy, n) ==
    IF n > 0 THEN rng_integers(default_rng(random_state, entropy), n) ELSE <<>>

\* line 71: other_events or [c for c in df.columns if c != base_event];
\* other_events is <<>> for None and <<list>> for a list, and an empty list
\* is as false as None
batch_events(columns, base_event, other_events) ==
    IF Len(other_events) = 1 /\ Len(other_events[1]) > 0
    THEN other_events[1]
    ELSE SelectSeq(columns, LAMBDA c : c # base_event)

\* lines 74-83, the loop from position index on: the dict `results` as the
\* sequence of its keys in insertion order and the function from key to
\* value, the seeds handed to the pairwise orchestrator in call order, and
\* the exception that ended the loop, if any
RECURSIVE batch_loop(_, _, _, _, _, _, _)
batch_loop(frame, base_event, events, simulations, seeds, index, acc) ==
    IF index > Len(events)
    THEN acc
    ELSE LET event == events[index]
             seed == IF index <= Len(seeds) THEN seeds[index] ELSE None
             r == run_event_coincidence_analysis(frame, base_event, event,
                                                 simulations, seed, 0)
             called == Append(acc.seeds_used, seed)
         IN  IF r.status # "ok"
             THEN [acc EXCEPT !.status = r.status, !.seeds_used = called]
             ELSE batch_loop(frame, base_event, events, simulations, seeds, index + 1,
                    [status |-> "ok",
                     keys |-> IF event \in DOMAIN acc.results
                              THEN acc.keys ELSE Append(acc.keys, event),
                     results |-> [k \in DOMAIN acc.results \cup {event} |->
                                     IF k = event THEN r ELSE acc.results[k]],
                     seeds_used |-> called])

batch_event_coincidence(frame, columns, base_event, other_events, simulations, random_state, entropy) ==
    LET events == batch_events(columns, base_event, other_events)
        seeds == batch_seeds(random_state, entropy, Len(events))
    IN  batch_loop(frame, base_event, events, simulations, seeds, 1,
                   [status |-> "ok", keys |-> <<>>, results |-> <<>>,
                    seeds_used |-> <<>>])

\* ------------------------------------------------- lag analysis (app.py)
\* the shift with no grouping: every row takes the value lag rows above it
PlainShift(country, column, lag) ==
    [i \in 1..Len(column) |-> IF i - lag >= 1 THEN column[i - lag] ELSE NaN]

\* lag_df.groupby("Country")[variable].shift(lag): a row takes the value of
\* the row that is lag places before it among the rows of its own Country,
\* and NaN when its Country has no such row
GroupShift(country, column, lag) ==
    [i \in 1..Len(column) |->
        LET earlier == {j \in 1..(i - 1) : country[j] = country[i]}
        IN  IF Cardinality(earlier) < lag
            THEN NaN
            ELSE column[CHOOSE j \in earlier :
                           Cardinality({m \in earlier : m >= j}) = lag]]

\* line 102: .shift(lag).fillna(0).astype(int)
lagged_column(frame, variable, lag) ==
    _binary_series(GroupShift(frame["Country"], frame[variable], lag))

\* f"{variable}_lag{lag}"
col_name_of(variable, lag) ==
    variable \o "_lag" \o ToString(lag)

\* line 34 and 35, over the category columns in the frame's column order
shock_columns_of(columns) ==
    SelectSeq(columns, LAMBDA c : c \notin {"Country", "Year", "Outbreak"})

\* line 98: every (variable, lag) with lag in range(1, 6), variable-major
RECURSIVE lag_specs_of(_)
lag_specs_of(shock_columns) ==
    IF Len(shock_columns) = 0
    THEN <<>>
    ELSE [k \in 1..MaxLag |-> <<Head(shock_columns), k>>]
            \o lag_specs_of(Tail(shock_columns))

\* ------------------------------------------------------------------ state
VARIABLES
    df,       \* the event panel handed to the engine
    last,     \* <<>> or <<the most recent pairwise call: arguments and outcome>>
    first,    \* <<>> or <<the first pairwise call of the session>>
    batch,    \* <<>> or <<the batch call: arguments and outcome>>
    controls, \* the dashboard's sidebar: simulations and random_seed
    lag_df,   \* the dashboard's lag_df: df_wide plus the lag columns built so far
    lag_records  \* the dashboard's lag_records, one per (variable, lag) done

vars == <<df, last, first, batch, controls, lag_df, lag_records>>
appVars == <<controls, lag_df, lag_records>>

NoControls == [simulations |-> 0, random_seed |-> 0]
EngineOnly ==
    /\ controls = NoControls
    /\ lag_df = <<>>
    /\ lag_records = <<>>

Cells == {0, 1, NaN}
BinaryCells == {0, 1}
PairColumns == {"Outbreak", "Climatic"}
Seeds == {None} \cup (0..MaxSeed)
EntropyFor(random_state) ==
    IF random_state = None THEN 0..MaxEntropy ELSE {0}

Panels(columns, cells, maxrows) ==
    UNION {[columns -> [1..n -> cells]] : n \in 0..maxrows}

PairCall(event_a, event_b, simulations, random_state, entropy) ==
    [event_a |-> event_a, event_b |-> event_b, simulations |-> simulations,
     random_state |-> random_state,
     out |-> run_event_coincidence_analysis(df, event_a, event_b, simulations,
                                            random_state, entropy)]

\* ------------------------------------------------- one pairwise invocation
PairInit ==
    /\ df \in Panels(PairColumns, Cells, MaxRows)
    /\ last = <<>>
    /\ first = <<>>
    /\ batch = <<>>
    /\ EngineOnly

\* run_event_coincidence_analysis(df, event_a, event_b, simulations, random_state)
CallRun ==
    /\ Len(last) = 0
    /\ \E event_a \in PairColumns, event_b \in PairColumns,
          simulations \in MinSims..MaxSims, random_state \in Seeds :
          \E entropy \in EntropyFor(random_state) :
             last' = <<PairCall(event_a, event_b, simulations, random_state, entropy)>>
    /\ UNCHANGED <<df, first, batch, appVars>>

PairNext == CallRun

PairSpec == PairInit /\ [][PairNext]_vars

\* ---------------------------------------------------- one batch invocation
BatchColumns == <<"Outbreak", "Climatic", "Economic">>
OtherColumns == {"Climatic", "Economic"}
ColumnSet(columns) == {columns[i] : i \in 1..Len(columns)}

EventLists == UNION {[1..n -> OtherColumns] : n \in 0..MaxEvents}
\* other_events: None, or a list of column names
OtherEventsArgs == {<<>>} \cup {<<l>> : l \in EventLists}

BatchInit ==
    /\ df \in Panels(ColumnSet(BatchColumns), BinaryCells, BatchRows)
    /\ last = <<>>
    /\ first = <<>>
    /\ batch = <<>>
    /\ EngineOnly

\* batch_event_coincidence(df, "Outbreak", other_events, simulations, random_state)
CallBatch ==
    /\ Len(batch) = 0
    /\ \E other_events \in OtherEventsArgs, simulations \in MinSims..MaxSims,
          random_state \in Seeds :
          \E entropy \in EntropyFor(random_state) :
             batch' = <<[base_event |-> "Outbreak",
                         other_events |-> other_events,
                         simulations |-> simulations,
                         random_state |-> random_state,
                         out |-> batch_event_coincidence(df, BatchColumns, "Outbreak",
                                    other_events, simulations, random_state, entropy)]>>
    /\ UNCHANGED <<df, last, first, appVars>>

BatchNext == CallBatch

BatchSpec == BatchInit /\ [][BatchNext]_vars

\* ---------------------------------------------------------- claims, batch
BatchCalled == Len(batch) = 1
BatchCall == batch[1]
BatchReturned == BatchCalled /\ BatchCall.out.status = "ok"

\* the list the caller supplied (nothing when other_events is None)
SuppliedList ==
    IF Len(BatchCall.other_events) = 1 THEN BatchCall.other_events[1] ELSE <<>>

RECURSIVE RngStepN(_, _)
RngStepN(state, n) ==
    IF n = 0 THEN state ELSE RngStepN(RngStep(state), n - 1)

\* the i-th value a generator seeded once with S yields in 0 .. SeedHigh-1
NthSubSeed(S, i) ==
    (RngStepN(default_rng(S, 0), i) * SeedHigh) \div RngModulus

\* what the pairwise orchestrator returns for (base, event) under `seed`
Individually(event, seed) ==
    run_event_coincidence_analysis(df, BatchCall.base_event, event,
                                   BatchCall.simulations, seed, 0)

IsLastOccurrence(list, i) ==
    \A j \in (i + 1)..Len(list) : list[j] # list[i]

\* C4 as stated: under a master seed S the batch returns, for every
\* position i of the list, the result of the pairwise orchestrator on
\* (base, event_i) seeded with the i-th sub-seed drawn from a generator
\* seeded once with S.
C4_EveryPosition ==
    (BatchReturned /\ BatchCall.random_state # None /\ BatchCall.simulations > 0) =>
        \A i \in 1..Len(SuppliedList) :
            /\ SuppliedList[i] \in DOMAIN BatchCall.out.results
            /\ BatchCall.out.results[SuppliedList[i]]
                  = Individually(SuppliedList[i], NthSubSeed(BatchCall.random_state, i))

\* C4 amended: the same, for every position that is the last occurrence of
\* its name in the list (every position of a list without repeated names);
\* and the seeds handed on are the sub-seeds in input order.
C4_LastOccurrence ==
    (BatchReturned /\ BatchCall.random_state # None) =>
        /\ \A i \in 1..Len(SuppliedList) :
              IsLastOccurrence(SuppliedList, i) =>
                /\ SuppliedList[i] \in DOMAIN BatchCall.out.results
                /\ BatchCall.out.results[SuppliedList[i]]
                      = Individually(SuppliedList[i],
                                     NthSubSeed(BatchCall.random_state, i))
        /\ \A i \in 1..Len(BatchCall.out.seeds_used) :
              BatchCall.out.seeds_used[i] = NthSubSeed(BatchCall.random_state, i)

\* a seeded batch over MaxEvents distinct names, with N > 0, in which the
\* first two categories got different sub-seeds, neither the master seed,
\* and the first category's null distribution is not the one the master
\* seed itself gives
C4_Witness ==
    /\ BatchReturned
    /\ BatchCall.random_state # None
    /\ BatchCall.simulations = MaxSims
    /\ Len(SuppliedList) = MaxEvents
    /\ \A i, j \in 1..Len(SuppliedList) : i # j => SuppliedList[i] # SuppliedList[j]
    /\ BatchCall.out.seeds_used[1] # BatchCall.out.seeds_used[2]
    /\ BatchCall.out.results[SuppliedList[1]].simulations
          # Individually(SuppliedList[1], BatchCall.random_state).simulations

RECURSIVE FirstOccurrences(_)
FirstOccurrences(list) ==
    IF Len(list) = 0
    THEN <<>>
    ELSE LET front == FirstOccurrences(SubSeq(list, 1, Len(list) - 1))
             x == list[Len(list)]
         IN  IF \E i \in 1..Len(front) : front[i] = x THEN front ELSE Append(front, x)

\* C9: for every supplied list (an empty one and one with a repeated name
\* included) the keys of the returned mapping are exactly the names of the
\* list, in the order of the list, one result per name.
C9_KeysAsListed ==
    (BatchReturned /\ Len(BatchCall.other_events) = 1 /\ BatchCall.simulations > 0) =>
        /\ BatchCall.out.keys = FirstOccurrences(SuppliedList)
        /\ DOMAIN BatchCall.out.results = {SuppliedList[i] : i \in 1..Len(SuppliedList)}

\* C10: the sub-seeds handed to the pairwise orchestrator for two distinct
\* categories of one batch differ, and none equals the master seed.
C10_DistinctSubSeeds ==
    (/\ BatchReturned
     /\ BatchCall.simulations > 0
     /\ Len(BatchCall.other_events) = 1
     /\ Len(SuppliedList) > 0) =>
        LET used == BatchCall.out.seeds_used
        IN  /\ Len(used) = Len(SuppliedList)
            /\ \A i, j \in 1..Len(used) :
                   SuppliedList[i] # SuppliedList[j] => used[i] # used[j]
            /\ \A i \in 1..Len(used) : used[i] # BatchCall.random_state

\* ------------------------------------------------ the dashboard script run
\* df_wide after line 36: one row per (Country, Year) in index order, so the
\* rows of a Country are adjacent; 0/1 in every category column.  The Year
\* column is left out: no line from 46 on reads it.
Countries == <<"A", "B">>
WideColumns == <<"Country", "Outbreak", "Climatic">>

\* the Country column of n rows, the first k of them Countries[1]
CountryColumn(n, k) ==
    [i \in 1..n |-> IF i <= k THEN Countries[1] ELSE Countries[2]]

WidePanels ==
    UNION {{[c \in ColumnSet(WideColumns) |->
                IF c = "Country" THEN CountryColumn(n, k)
                ELSE IF c = "Outbreak" THEN o ELSE x] :
              k \in 0..n, o \in [1..n -> BinaryCells], x \in [1..n -> BinaryCells]} :
           n \in 0..MaxRows}

AppInit ==
    /\ df \in WidePanels
    /\ last = <<>>
    /\ first = <<>>
    /\ batch = <<>>
    /\ controls \in [simulations : {1, MaxSims}, random_seed : {0, MaxSeed}]
    /\ lag_df = df
    /\ lag_records = <<>>

shock_columns == shock_columns_of(WideColumns)
lag_specs == lag_specs_of(shock_columns)

\* lines 46-52: the same-year batch over shock_columns
SameYear ==
    /\ Len(batch) = 0
    /\ batch' = <<[base_event |-> "Outbreak",
                   other_events |-> <<shock_columns>>,
                   simulations |-> controls.simulations,
                   random_state |-> controls.random_seed,
                   out |-> batch_event_coincidence(df, <<"Outbreak">> \o shock_columns,
                              "Outbreak", <<shock_columns>>, controls.simulations,
                              controls.random_seed, 0)]>>
    /\ UNCHANGED <<df, last, first, appVars>>

\* lines 100-121: one iteration of the lag loop
LagStep ==
    /\ Len(batch) = 1
    /\ Len(lag_records) < Len(lag_specs)
    /\ LET variable == lag_specs[Len(lag_records) + 1][1]
           lag == lag_specs[Len(lag_records) + 1][2]
           col_name == col_name_of(variable, lag)
           new_df == [c \in DOMAIN lag_df \cup {col_name} |->
                         IF c = col_name
                         THEN lagged_column(lag_df, variable, lag)
                         ELSE lag_df[c]]
           lag_result == run_event_coincidence_analysis(new_df, "Outbreak", col_name,
                            controls.simulations, controls.random_seed, 0)
           lag_summary == lag_result.summary
           expected == lag_result.expected_random_coincidences
       IN  /\ lag_df' = new_df
           /\ lag_records' = Append(lag_records,
                 [Variable |-> variable,
                  Lag |-> lag,
                  Coincidences |-> lag_summary.coincidences,
                  Expected |-> expected,
                  PValue |-> lag_result.p_value,
                  Share |-> lag_summary.conditional_rates["Outbreak"],
                  Lift |-> <<lag_summary.coincidences * expected[2] - expected[1],
                             expected[2]>>])
    /\ UNCHANGED <<df, last, first, batch, controls>>

AppNext == SameYear \/ LagStep

AppSpec == AppInit /\ [][AppNext]_vars

\* ------------------------------------------------------------ claims, lag
\* the row numbers of one entity, in row order
RowsOf(entity) ==
    SelectSeq([i \in 1..Len(df["Country"]) |-> i],
              LAMBDA i : df["Country"][i] = entity)

\* C8: the lagged series built for (variable, k) is, inside each entity's
\* own rows, 0 at the first k positions and the variable's value k
\* positions earlier at the others; a group of length L <= k is all 0.
C8_LagWithinEntity ==
    \A r \in 1..Len(lag_records) :
        LET variable == lag_records[r].Variable
            k == lag_records[r].Lag
            lagged == lag_df[col_name_of(variable, k)]
        IN  /\ Len(lagged) = Len(df[variable])
            /\ \A e \in ColumnSet(Countries) :
                  LET rows == RowsOf(e)
                  IN  /\ \A p \in 1..Len(rows) :
                            lagged[rows[p]] =
                               IF p <= k THEN 0 ELSE df[variable][rows[p - k]]
                      /\ Len(rows) <= k =>
                            \A p \in 1..Len(rows) : lagged[rows[p]] = 0

\* the whole loop done on a panel of MaxRows rows over two entities, where
\* the second entity starts right after an event of the first (a shift
\* across the boundary would carry it over) and lag 1 carries an event
\* inside an entity
C8_Witness ==
    /\ Len(lag_records) = Len(lag_specs)
    /\ Len(df["Country"]) = MaxRows
    /\ \E i \in 2..MaxRows :
          /\ df["Country"][i] # df["Country"][i - 1]
          /\ df["Climatic"][i - 1] = 1
          /\ lag_df[col_name_of("Climatic", 1)][i] = 0
    /\ \E i \in 1..MaxRows : lag_df[col_name_of("Climatic", 1)][i] = 1

\* ------------------------------------------ repeated pairwise invocations
\* A session of calls on one panel: the first call is kept in `first`, every
\* later one replaces `last`.  The operating system's entropy is whatever it
\* is at each call, whether or not the call reads it.
ReproInit ==
    /\ df \in Panels(PairColumns, BinaryCells, ReproRows)
    /\ last = <<>>
    /\ first = <<>>
    /\ batch = <<>>
    /\ EngineOnly

FirstRun ==
    /\ Len(first) = 0
    /\ \E event_b \in PairColumns, random_state \in Seeds, entropy \in 0..MaxEntropy :
          first' = <<PairCall("Outbreak", event_b, MaxSims, random_state, entropy)>>
    /\ UNCHANGED <<df, last, batch, appVars>>

LaterRun ==
    /\ Len(first) = 1
    /\ \E event_b \in PairColumns, random_state \in Seeds, entropy \in 0..MaxEntropy :
          last' = <<PairCall("Outbreak", event_b, MaxSims, random_state, entropy)>>
    /\ UNCHANGED <<df, first, batch, appVars>>

ReproNext == FirstRun \/ LaterRun

ReproSpec == ReproInit /\ [][ReproNext]_vars

\* C3: a later call with the arguments and the (non-None) seed of the first
\* call returns the same null distribution in the same order, the same
\* p_value and the same summary, whatever calls were made in between.
C3_Reproducible ==
    (/\ Len(first) = 1
     /\ Len(last) = 1
     /\ first[1].random_state # None
     /\ last[1].random_state = first[1].random_state
     /\ last[1].simulations = first[1].simulations
     /\ last[1].event_a = first[1].event_a
     /\ last[1].event_b = first[1].event_b) =>
        /\ last[1].out.simulations = first[1].out.simulations
        /\ last[1].out.p_value = first[1].out.p_value
        /\ last[1].out.summary = first[1].out.summary
        /\ last[1].out = first[1].out

\* two seeded calls with the same arguments whose null distribution holds
\* two different counts (the permutations drawn do matter)
C3_Witness ==
    /\ Len(first) = 1
    /\ Len(last) = 1
    /\ first[1].random_state # None
    /\ last[1].random_state = first[1].random_state
    /\ last[1].simulations = first[1].simulations
    /\ first[1].simulations = MaxSims
    /\ \E i, j \in 1..Len(last[1].out.simulations) :
          last[1].out.simulations[i] # last[1].out.simulations[j]

\* ------------------------------------------------------- claims, pairwise
Called == Len(last) = 1
Call == last[1]
Returned == Called /\ Call.out.status = "ok"

\* the number of rows of a panel column holding exactly 1
CountOnes(column) ==
    Cardinality({i \in 1..Len(column) : column[i] = 1})

\* the rows where both columns hold 1
CountBoth(x, y) ==
    Cardinality({i \in 1..Len(x) : x[i] = 1 /\ y[i] = 1})

Min(x, y) == IF x <= y THEN x ELSE y

\* C1: for every panel, column pair, seed and simulation count N > 0 the
\* call returns, and its p_value n/d satisfies 1/(N+1) <= n/d <= 1.
C1_PValueRange ==
    (Called /\ Call.simulations > 0) =>
        /\ Call.out.status = "ok"
        /\ Call.out.p_value[2] > 0
        /\ Call.out.p_value[2] <= Call.out.p_value[1] * (Call.simulations + 1)
        /\ Call.out.p_value[1] <= Call.out.p_value[2]

\* a call with N = MaxSims > 0 in which no trial reached the observed count
\* (the lower end 1/(N+1)), on a panel where some permutations do reach it
C1_Witness ==
    /\ Returned
    /\ Call.simulations = MaxSims
    /\ Call.out.summary.coincidences > 0
    /\ Call.out.p_value = <<1, Call.simulations + 1>>

\* C2: a call with simulations <= 0 ends with an invalid-configuration
\* error and builds no null distribution.
C2_FailsFast ==
    (Called /\ Call.simulations <= 0) => Call.out.status = "InvalidConfiguration"

\* C5: on binary series the observed count and every simulated count lie
\* in 0 .. min(total_A, total_B), the totals counted on the panel itself.
C5_JointBounds ==
    Called =>
        LET hi == Min(CountOnes(df[Call.event_a]), CountOnes(df[Call.event_b]))
        IN  /\ Call.out.summary.coincidences \in 0..hi
            /\ \A i \in 1..Len(Call.out.simulations) :
                   Call.out.simulations[i] \in 0..hi

\* a call whose null distribution holds both a count below and a count
\* equal to the upper bound min(total_A, total_B)
C5_Witness ==
    /\ Returned
    /\ Call.event_a # Call.event_b
    /\ LET hi == Min(CountOnes(df[Call.event_a]), CountOnes(df[Call.event_b]))
       IN  /\ hi > 0
           /\ \E i, j \in 1..Len(Call.out.simulations) :
                  /\ Call.out.simulations[i] = hi
                  /\ Call.out.simulations[j] < hi

\* C6: when one of the two columns holds no 1, for N > 0 the observed count
\* is 0, every simulated count is 0 and the p_value is (N+1)/(N+1).
C6_Degenerate ==
    (/\ Called
     /\ Call.simulations > 0
     /\ (CountOnes(df[Call.event_a]) = 0 \/ CountOnes(df[Call.event_b]) = 0)) =>
        /\ Call.out.status = "ok"
        /\ Call.out.summary.coincidences = 0
        /\ Len(Call.out.simulations) = Call.simulations
        /\ \A i \in 1..Len(Call.out.simulations) : Call.out.simulations[i] = 0
        /\ Call.out.p_value = <<Call.simulations + 1, Call.simulations + 1>>

\* a call with N > 0 where one column has no 1 and the other has some
C6_Witness ==
    /\ Returned
    /\ Call.simulations = MaxSims
    /\ CountOnes(df[Call.event_b]) = 0
    /\ CountOnes(df[Call.event_a]) > 0
    /\ Len(df[Call.event_a]) = MaxRows

\* C7: the conditional rate of a column whose total is 0 is NaN (and the
\* call does not raise on it); the rate of a column with a positive total
\* is joint / (total of that same column).
C7_ConditionalRates ==
    Called =>
        \A e \in {Call.event_a, Call.event_b} :
            LET total == CountOnes(df[e])
                joint == CountBoth(df[Call.event_a], df[Call.event_b])
                rate == Call.out.summary.conditional_rates[e]
            IN  /\ Call.out.summary.totals[e] = total
                /\ total = 0 => rate = NaNFloat /\ rate # <<0, 1>>
                /\ total > 0 => rate = <<joint, total>>

\* a returned call in which one column has total 0 and the other a
\* positive total
C7_Witness ==
    /\ Returned
    /\ Call.out.summary.totals[Call.event_a] = 0
    /\ Call.out.summary.totals[Call.event_b] > 0
    /\ Call.out.summary.conditional_rates[Call.event_a] = NaNFloat
    /\ Call.out.summary.conditional_rates[Call.event_b][2] > 0

====
